---- MODULE Spec2Model ----
(***************************************************************************)
(* Gesture Space Invaders: the gesture controller (cv_controller.py) and   *)
(* the game loop (main_game.py) as state machines.                         *)
(*                                                                         *)
(* Three specifications share the definitions below:                       *)
(*   SpecCV         the CVController: its acquisition threads, start/stop   *)
(*                  and get_controls of the main thread;                    *)
(*   SpecFormation  Game.update_enemies stepped on a wave;                  *)
(*   Spec           Game.run: one loop iteration after the other.           *)
(*                                                                         *)
(* Floats are modelled as exact numbers: gesture values as normalised      *)
(* fractions <<n, d>>, enemy x positions as integers in 1/1000 pixel (a dt  *)
(* is a whole number of milliseconds and a speed a whole number of px/s).  *)
(***************************************************************************)
EXTENDS Integers, Sequences, FiniteSets, TLC

(***************************************************************************)
(* Bounds of the model.                                                    *)
(***************************************************************************)
\* Acquisition threads a controller may have started in one run.
MaxThreads == 2
\* Frames the camera delivers in one run.
MaxFrames == 2
\* Steps of update_enemies in one run of SpecFormation.
MaxFormationSteps == 350
\* Of these, the frames shorter than MAX_DT.
MaxShortFrames == 1
\* Enemies killed during one run of SpecFormation.
MaxKills == 3
\* The step of SpecFormation after which they are killed.
KillStep == 60
\* Iterations of Game.run in one run of Spec.
MaxTicks == 2
\* Enemy bullets in flight.
MaxEnemyBullets == 3
\* Player bullets in flight.
MaxBullets == 3
\* The living enemies, from the last of the formation, that random.choice
\* may pick as the shooter.
MaxShooters == 1

(***************************************************************************)
(* Exact fractions <<n, d>>, d > 0, in lowest terms.                       *)
(***************************************************************************)
RECURSIVE GCD(_, _)
GCD(a, b) == IF b = 0 THEN a ELSE GCD(b, a % b)

Abs(n) == IF n < 0 THEN -n ELSE n

Frac(n, d) ==
    LET g == GCD(Abs(n), d)
    IN  IF n = 0 THEN <<0, 1>> ELSE <<n \div g, d \div g>>

FLess(a, b) == a[1] * b[2] < b[1] * a[2]

FAdd(a, b) == Frac(a[1] * b[2] + b[1] * a[2], a[2] * b[2])

FSub(a, b) == Frac(a[1] * b[2] - b[1] * a[2], a[2] * b[2])

FMul(a, b) == Frac(a[1] * b[1], a[2] * b[2])

FAbs(a) == <<Abs(a[1]), a[2]>>

FMin(a, b) == IF FLess(b, a) THEN b ELSE a

FMax(a, b) == IF FLess(a, b) THEN b ELSE a

FZero == <<0, 1>>

FOne == <<1, 1>>

\* Python's None for an optional value; Some(v) is a present value.
None == <<>>

Some(v) == <<v>>

(***************************************************************************)
(* cv_controller.py: tuning constants and helpers.                         *)
(***************************************************************************)
DEADZONE == <<3, 100>>

SMOOTHING_ALPHA == <<7, 20>>

PINCH_THRESHOLD == <<3, 50>>

MIN_CONFIDENCE == <<1, 2>>

\* smooth_pos(prev, new, alpha): prev is None or Some(value).
smooth_pos(prev, new, alpha) ==
    IF prev = None THEN new
    ELSE FAdd(FMul(prev[1], FSub(FOne, alpha)), FMul(new, alpha))

in_deadzone(center, value, dz) == FLess(FAbs(FSub(value, center)), dz)

(***************************************************************************)
(* What the detector may report for a frame: no hand, or a hand with the   *)
(* x of landmark 9 and the thumb-index distance.  The x values are two     *)
(* less than DEADZONE apart and one far from both, beyond the frame.       *)
(***************************************************************************)
Detections ==
    { [hand |-> FALSE, lx |-> FZero, d |-> FZero],
      [hand |-> TRUE, lx |-> <<1, 5>>, d |-> <<1, 20>>],
      [hand |-> TRUE, lx |-> <<21, 100>>, d |-> <<1, 10>>],
      [hand |-> TRUE, lx |-> <<6, 5>>, d |-> <<1, 20>>] }

VARIABLES
    \* ---- CVController ----
    running,        \* self._running
    cap,            \* self.cap: "none", "open", "unopened", "released"
    hands,          \* self.hands: "none", "open", "closed"
    thread,         \* self._thread: 0 (None) or the id of the last thread
    lock,           \* self._lock: 0 (free) or its holder
    mx_norm,        \* self._x_norm
    mshoot,         \* self._shoot
    mconf,          \* self._confidence
    mpreview,       \* self._preview: 0 (None) or the frame it was drawn on
    prev_x,         \* self._prev_x
    thr,            \* each acquisition thread: its pc and _run's locals
    frames,         \* frames the camera has delivered
    mpc,            \* the main thread's position in start/stop/get_controls
    got,            \* get_controls: the tuple being built
    ret             \* get_controls: the tuple last returned

VARIABLES
    \* ---- Game ----
    pc,             \* where Game.run is in its iteration
    dt,             \* run: dt of the iteration, in milliseconds
    scan,           \* collision_checks: the rest of the copied list
    ticks,          \* iterations of run so far
    paused,         \* self.paused
    game_over_flag, \* self.game_over_flag
    cv_enabled,     \* self.cv_enabled
    kb_x,           \* self.kb_x, in 1/1000
    player_x,       \* self.player.rect.centerx
    lives,          \* self.player.lives
    cooling,        \* the player shot less than self.player.cooldown ago
    player_score,   \* self.player_score
    highscore,      \* self.highscore
    level,          \* self.level
    bullets,        \* self.bullets: the rect.x, rect.y of each
    enemy_bullets,  \* self.enemy_bullets: the rect.x, rect.y of each
    enemies,        \* self.enemies: float_x (1/1000 px), float_y, rect.x,
                    \* rect.y, alive of each
    enemy_dir,      \* self.enemy_dir
    enemy_speed,    \* self.enemy_speed
    fsteps,         \* SpecFormation: steps of update_enemies so far
    fshort          \* SpecFormation: of these, the frames shorter than MAX_DT

gameVars ==
    <<pc, dt, scan, ticks, paused, game_over_flag, cv_enabled, kb_x, player_x,
      lives, cooling, player_score, highscore, level, bullets, enemy_bullets,
      enemies, enemy_dir, enemy_speed, fsteps, fshort>>

cvVars ==
    <<running, cap, hands, thread, lock, mx_norm, mshoot, mconf, mpreview,
      prev_x, thr, frames, mpc, got, ret>>

vars == <<cvVars, gameVars>>

Threads == 1 .. MaxThreads

\* The main thread as a holder of the lock.
MainId == MaxThreads + 1

NewThread ==
    [pc |-> "unborn", frame |-> 0, x |-> None, shoot |-> FALSE, conf |-> FZero]

\* A field of the sample: its value, and the frame of the iteration that
\* wrote it (0: written by __init__).
Written(v, it) == [v |-> v, it |-> it]

\* The sample of __init__: (None, False, 0.0, None).
DefaultSample == <<Written(None, 0), Written(FALSE, 0), Written(FZero, 0), 0>>

CVInit ==
    /\ running = FALSE
    /\ cap = "none"
    /\ hands = "none"
    /\ thread = 0
    /\ lock = 0
    /\ mx_norm = Written(None, 0)
    /\ mshoot = Written(FALSE, 0)
    /\ mconf = Written(FZero, 0)
    /\ mpreview = 0
    /\ prev_x = None
    /\ thr = [t \in Threads |-> NewThread]
    /\ frames = 0
    /\ mpc = "idle"
    /\ got = DefaultSample
    /\ ret = DefaultSample


(***************************************************************************)
(* CVController.start, lines 54-76, in two steps of the main thread.       *)
(***************************************************************************)
\* Lines 55-61: return if running; open the camera; return if it did not open.
StartOpen ==
    /\ mpc = "idle"
    /\ ~running
    /\ \E t \in Threads : thr[t].pc = "unborn"
    /\ \E opened \in BOOLEAN :
        /\ cap' = IF opened THEN "open" ELSE "unopened"
        /\ mpc' = IF opened THEN "start2" ELSE "idle"
    /\ UNCHANGED <<running, hands, thread, lock, mx_norm, mshoot, mconf,
                   mpreview, prev_x, thr, frames, got, ret>>
    /\ UNCHANGED gameVars

\* Lines 67-76: the detector, _running = True, a new thread running _run.
StartSpawn ==
    /\ mpc = "start2"
    /\ LET t == CHOOSE u \in Threads :
                    /\ thr[u].pc = "unborn"
                    /\ \A v \in Threads : thr[v].pc = "unborn" => u <= v
       IN  /\ thr' = [thr EXCEPT ![t].pc = "loop"]
           /\ thread' = t
    /\ hands' = "open"
    /\ running' = TRUE
    /\ mpc' = "idle"
    /\ UNCHANGED <<cap, lock, mx_norm, mshoot, mconf, mpreview, prev_x,
                   frames, got, ret>>
    /\ UNCHANGED gameVars

(***************************************************************************)
(* CVController.stop, lines 78-85.                                         *)
(***************************************************************************)
\* Line 79.
StopSignal ==
    /\ mpc = "idle"
    /\ running' = FALSE
    /\ mpc' = IF thread # 0 THEN "join" ELSE "release"
    /\ UNCHANGED <<cap, hands, thread, lock, mx_norm, mshoot, mconf, mpreview,
                   prev_x, thr, frames, got, ret>>
    /\ UNCHANGED gameVars

\* Line 81: join(timeout=1.0) returns when the thread has ended ...
StopJoined ==
    /\ mpc = "join"
    /\ thr[thread].pc = "done"
    /\ mpc' = "release"
    /\ UNCHANGED <<running, cap, hands, thread, lock, mx_norm, mshoot, mconf,
                   mpreview, prev_x, thr, frames, got, ret>>
    /\ UNCHANGED gameVars

\* ... or when the second has passed and the thread is still in its loop.
StopJoinTimeout ==
    /\ mpc = "join"
    /\ thr[thread].pc # "done"
    /\ mpc' = "release"
    /\ UNCHANGED <<running, cap, hands, thread, lock, mx_norm, mshoot, mconf,
                   mpreview, prev_x, thr, frames, got, ret>>
    /\ UNCHANGED gameVars

\* Lines 82-83.
StopRelease ==
    /\ mpc = "release"
    /\ cap' = IF cap # "none" THEN "released" ELSE cap
    /\ mpc' = "close"
    /\ UNCHANGED <<running, hands, thread, lock, mx_norm, mshoot, mconf,
                   mpreview, prev_x, thr, frames, got, ret>>
    /\ UNCHANGED gameVars

\* Lines 84-85.
StopClose ==
    /\ mpc = "close"
    /\ hands' = IF hands # "none" THEN "closed" ELSE hands
    /\ mpc' = "idle"
    /\ UNCHANGED <<running, cap, thread, lock, mx_norm, mshoot, mconf,
                   mpreview, prev_x, thr, frames, got, ret>>
    /\ UNCHANGED gameVars

(***************************************************************************)
(* CVController._run, lines 87-142, of acquisition thread t.               *)
(***************************************************************************)
\* Line 91: while self._running.
RunLoop(t) ==
    /\ thr[t].pc = "loop"
    /\ thr' = [thr EXCEPT ![t].pc = IF running THEN "read" ELSE "done"]
    /\ UNCHANGED <<running, cap, hands, thread, lock, mx_norm, mshoot, mconf,
                   mpreview, prev_x, frames, mpc, got, ret>>
    /\ UNCHANGED gameVars

\* Line 92, a frame: only an open camera delivers one.
RunReadFrame(t) ==
    /\ thr[t].pc = "read"
    /\ cap = "open"
    /\ frames < MaxFrames
    /\ frames' = frames + 1
    /\ thr' = [thr EXCEPT ![t].pc = "process", ![t].frame = frames + 1]
    /\ UNCHANGED <<running, cap, hands, thread, lock, mx_norm, mshoot, mconf,
                   mpreview, prev_x, mpc, got, ret>>
    /\ UNCHANGED gameVars

\* Lines 92-95, no frame: sleep and go round.
RunReadNothing(t) ==
    /\ thr[t].pc = "read"
    /\ thr' = [thr EXCEPT ![t].pc = "loop"]
    /\ UNCHANGED <<running, cap, hands, thread, lock, mx_norm, mshoot, mconf,
                   mpreview, prev_x, frames, mpc, got, ret>>
    /\ UNCHANGED gameVars

\* A mutant of ClampX: the landmark's x as the detector gives it.
ClampXRaw(lx) == lx

\* Line 112.
ClampX(lx) == FMax(FZero, FMin(FOne, lx))

\* Line 120, with conf the 1.0 of line 119.
ShootOf(d, conf) == FLess(d, PINCH_THRESHOLD) /\ FLess(MIN_CONFIDENCE, conf)

\* Lines 100-123: the detector on the frame, then the locals of the sample.
\* A closed detector raises, which ends the thread.
RunProcess(t) ==
    /\ thr[t].pc = "process"
    /\ IF hands # "open"
       THEN thr' = [thr EXCEPT ![t].pc = "done"]
       ELSE \E det \in Detections :
                thr' = [thr EXCEPT
                    ![t].pc = "lock",
                    ![t].x = IF det.hand THEN Some(ClampX(det.lx)) ELSE None,
                    ![t].conf = IF det.hand THEN FOne ELSE FZero,
                    ![t].shoot = det.hand /\ ShootOf(det.d, FOne)]
    /\ UNCHANGED <<running, cap, hands, thread, lock, mx_norm, mshoot, mconf,
                   mpreview, prev_x, frames, mpc, got, ret>>
    /\ UNCHANGED gameVars

\* with self._lock: whether a thread may enter, given the lock's holder.
CanAcquireUnlocked(holder) == TRUE

CanAcquire(holder) == holder = 0

\* Line 126.
RunAcquire(t) ==
    /\ thr[t].pc = "lock"
    /\ CanAcquire(lock)
    /\ lock' = t
    /\ thr' = [thr EXCEPT ![t].pc = "w_x"]
    /\ UNCHANGED <<running, cap, hands, thread, mx_norm, mshoot, mconf,
                   mpreview, prev_x, frames, mpc, got, ret>>
    /\ UNCHANGED gameVars

\* A mutant of NextPrevX: the filter without the deadzone.
NextPrevXFiltered(prev, x) == Some(smooth_pos(prev, x, SMOOTHING_ALPHA))

\* Lines 128-132: self._prev_x after a detected x.
NextPrevX(prev, x) ==
    LET first == IF prev = None THEN Some(x) ELSE prev
    IN  IF ~in_deadzone(first[1], x, DEADZONE)
        THEN Some(smooth_pos(first, x, SMOOTHING_ALPHA))
        ELSE first

\* A mutant of RunWriteX: a frame without a hand also forgets _prev_x.
RunWriteXForgetting(t) ==
    /\ thr[t].pc = "w_x"
    /\ IF thr[t].x # None
       THEN /\ prev_x' = NextPrevX(prev_x, thr[t].x[1])
            /\ mx_norm' = Written(prev_x', thr[t].frame)
       ELSE /\ mx_norm' = Written(None, thr[t].frame)
            /\ prev_x' = None
    /\ thr' = [thr EXCEPT ![t].pc = "w_shoot"]
    /\ UNCHANGED <<running, cap, hands, thread, lock, mshoot, mconf,
                   mpreview, frames, mpc, got, ret>>
    /\ UNCHANGED gameVars

\* Lines 127-136.
RunWriteX(t) ==
    /\ thr[t].pc = "w_x"
    /\ IF thr[t].x # None
       THEN /\ prev_x' = NextPrevX(prev_x, thr[t].x[1])
            /\ mx_norm' = Written(prev_x', thr[t].frame)
       ELSE /\ mx_norm' = Written(None, thr[t].frame)
            /\ UNCHANGED prev_x
    /\ thr' = [thr EXCEPT ![t].pc = "w_shoot"]
    /\ UNCHANGED <<running, cap, hands, thread, lock, mshoot, mconf,
                   mpreview, frames, mpc, got, ret>>
    /\ UNCHANGED gameVars

\* Line 138.
RunWriteShoot(t) ==
    /\ thr[t].pc = "w_shoot"
    /\ mshoot' = Written(thr[t].shoot, thr[t].frame)
    /\ thr' = [thr EXCEPT ![t].pc = "w_conf"]
    /\ UNCHANGED <<running, cap, hands, thread, lock, mx_norm, mconf,
                   mpreview, prev_x, frames, mpc, got, ret>>
    /\ UNCHANGED gameVars

\* Line 139.
RunWriteConf(t) ==
    /\ thr[t].pc = "w_conf"
    /\ mconf' = Written(thr[t].conf, thr[t].frame)
    /\ thr' = [thr EXCEPT ![t].pc = "w_preview"]
    /\ UNCHANGED <<running, cap, hands, thread, lock, mx_norm, mshoot,
                   mpreview, prev_x, frames, mpc, got, ret>>
    /\ UNCHANGED gameVars

\* Line 140: the last field of the sample; the sample is now complete.
RunWritePreview(t) ==
    /\ thr[t].pc = "w_preview"
    /\ mpreview' = thr[t].frame
    /\ thr' = [thr EXCEPT ![t].pc = "unlock"]
    /\ UNCHANGED <<running, cap, hands, thread, lock, mx_norm, mshoot, mconf,
                   prev_x, frames, mpc, got, ret>>
    /\ UNCHANGED gameVars

\* The end of the with block, then line 142; the next iteration sets its
\* locals anew.
RunRelease(t) ==
    /\ thr[t].pc = "unlock"
    /\ lock' = 0
    /\ thr' = [thr EXCEPT ![t] = [NewThread EXCEPT !.pc = "loop"]]
    /\ UNCHANGED <<running, cap, hands, thread, mx_norm, mshoot, mconf,
                   mpreview, prev_x, frames, mpc, got, ret>>
    /\ UNCHANGED gameVars

(***************************************************************************)
(* CVController.get_controls, lines 144-146, of the main thread: the lock, *)
(* the four fields read one after the other, the lock released.            *)
(***************************************************************************)
GetAcquire ==
    /\ mpc = "idle"
    /\ CanAcquire(lock)
    /\ lock' = MainId
    /\ mpc' = "g_x"
    /\ UNCHANGED <<running, cap, hands, thread, mx_norm, mshoot, mconf,
                   mpreview, prev_x, thr, frames, got, ret>>
    /\ UNCHANGED gameVars

GetX ==
    /\ mpc = "g_x"
    /\ got' = [got EXCEPT ![1] = mx_norm]
    /\ mpc' = "g_shoot"
    /\ UNCHANGED <<running, cap, hands, thread, lock, mx_norm, mshoot, mconf,
                   mpreview, prev_x, thr, frames, ret>>
    /\ UNCHANGED gameVars

GetShoot ==
    /\ mpc = "g_shoot"
    /\ got' = [got EXCEPT ![2] = mshoot]
    /\ mpc' = "g_conf"
    /\ UNCHANGED <<running, cap, hands, thread, lock, mx_norm, mshoot, mconf,
                   mpreview, prev_x, thr, frames, ret>>
    /\ UNCHANGED gameVars

GetConf ==
    /\ mpc = "g_conf"
    /\ got' = [got EXCEPT ![3] = mconf]
    /\ mpc' = "g_preview"
    /\ UNCHANGED <<running, cap, hands, thread, lock, mx_norm, mshoot, mconf,
                   mpreview, prev_x, thr, frames, ret>>
    /\ UNCHANGED gameVars

GetPreview ==
    /\ mpc = "g_preview"
    /\ got' = [got EXCEPT ![4] = mpreview]
    /\ mpc' = "g_return"
    /\ UNCHANGED <<running, cap, hands, thread, lock, mx_norm, mshoot, mconf,
                   mpreview, prev_x, thr, frames, ret>>
    /\ UNCHANGED gameVars

\* A mutant of GetReturn: the read empties the slot.
GetReturnConsuming ==
    /\ mpc = "g_return"
    /\ lock' = 0
    /\ ret' = got
    /\ got' = DefaultSample
    /\ mpc' = "idle"
    /\ mx_norm' = Written(None, 0)
    /\ mshoot' = Written(FALSE, 0)
    /\ mconf' = Written(FZero, 0)
    /\ mpreview' = 0
    /\ UNCHANGED <<running, cap, hands, thread, prev_x, thr, frames>>
    /\ UNCHANGED gameVars

GetReturn ==
    /\ mpc = "g_return"
    /\ lock' = 0
    /\ ret' = got
    /\ got' = DefaultSample
    /\ mpc' = "idle"
    /\ UNCHANGED <<running, cap, hands, thread, mx_norm, mshoot, mconf,
                   mpreview, prev_x, thr, frames>>
    /\ UNCHANGED gameVars

(***************************************************************************)
(* main_game.py: constants.  Lengths are pixels, times milliseconds.       *)
(***************************************************************************)
WIDTH == 900

HEIGHT == 700

MAX_DT == 50

MAX_MOVE_PER_FRAME == 12

\* The enemy sprite, 40 x 30 (the fallback surface of line 144).
EnemyW == 40

EnemyH == 30

\* The bullet sprite, scaled to 6 x 12 (line 154).
BulletW == 6

BulletH == 12

\* The ship, scaled to 100 x 66 (line 140).
PlayerW == 100

PlayerH == 66

\* Player.__init__: rect.y of midbottom = (WIDTH // 2, HEIGHT - 30).
PlayerY == HEIGHT - 30 - PlayerH

\* int() of a float given in 1/1000: towards zero.
IntOf(m) == IF m >= 0 THEN m \div 1000 ELSE -((-m) \div 1000)

\* pygame.Rect.colliderect of two rects [x, y, w, h].
Collide(a, b) ==
    /\ a.x < b.x + b.w
    /\ a.x + a.w > b.x
    /\ a.y < b.y + b.h
    /\ a.y + a.h > b.y

BulletRect(b) == [x |-> b.x, y |-> b.y, w |-> BulletW, h |-> BulletH]

EnemyRect(e) == [x |-> e.x, y |-> e.y, w |-> EnemyW, h |-> EnemyH]

\* The player's rect when its centerx is cx.
PlayerRect(cx) ==
    [x |-> cx - PlayerW \div 2, y |-> PlayerY, w |-> PlayerW, h |-> PlayerH]

\* Bullet(x, y, img): the rect whose center is (x, y).
Bullet(cx, cy) == [x |-> cx - BulletW \div 2, y |-> cy - BulletH \div 2]

\* The bullet the player fires, lines 244 and 398.
PlayerBullet(cx) == Bullet(cx, PlayerY - 6)

(***************************************************************************)
(* Game.spawn_wave, lines 208-228.  random.uniform(-1.5, 1.5) of line 227  *)
(* is drawn per enemy; the model draws one of three patterns for the wave. *)
(***************************************************************************)
JitterPatterns == {"low", "high", "mixed"}

Jitter(p, i) ==
    CASE p = "low" -> -1500
      [] p = "high" -> 1499
      [] OTHER -> ((i * 977) % 3000) - 1500

\* A mutant of Rows: a row more from every even level on.
RowsEarly(lv) == 3 + lv \div 2

\* Line 210.
Rows(lv) == 3 + (lv - 1) \div 2

Cols == 7

SpeedOf(lv) == 45 + (lv - 1) * 8

\* Lines 209-222 and 226-228: the enemies of a wave.
SpawnWave(lv, p) ==
    [i \in 1 .. Rows(lv) * Cols |->
        LET r == (i - 1) \div Cols
            c == (i - 1) % Cols
            fx == (80 + c * 70) * 1000 + Jitter(p, i)
        IN  [fx |-> fx, fy |-> 50 + r * 55, x |-> IntOf(fx),
             y |-> 50 + r * 55, alive |-> TRUE]]

Alive(es) == {i \in DOMAIN es : es[i].alive}

(***************************************************************************)
(* Game.update_enemies, lines 266-311.                                     *)
(***************************************************************************)
\* A mutant of MovePx: the safety limits of lines 271 and 277-278 left out.
MovePxUnlimited(speed, d, dir) == speed * d * dir

\* Lines 271-278: the move of this frame in 1/1000 px, dt capped and the
\* move clamped.
MovePx(speed, d, dir) ==
    LET capped == IF d < MAX_DT THEN d ELSE MAX_DT
        move == speed * capped * dir
    IN  IF Abs(move) > MAX_MOVE_PER_FRAME * 1000
        THEN MAX_MOVE_PER_FRAME * 1000 * (IF move > 0 THEN 1 ELSE -1)
        ELSE move

\* A mutant of WillHitEdge: the right margin tested without the width.
WillHitEdgeNoWidth(es, move) ==
    \E i \in Alive(es) :
        \/ es[i].fx + move >= (WIDTH - 10) * 1000
        \/ es[i].fx + move <= 10 * 1000

\* Lines 281-289.
WillHitEdge(es, move) ==
    \E i \in Alive(es) :
        \/ es[i].fx + move + EnemyW * 1000 >= (WIDTH - 10) * 1000
        \/ es[i].fx + move <= 10 * 1000

\* Lines 294-297.
Dropped(es) ==
    [i \in DOMAIN es |->
        IF es[i].alive
        THEN [es[i] EXCEPT !.fy = @ + 12, !.y = es[i].fy + 12]
        ELSE es[i]]

\* A mutant of Marched: the dead march with the living.
MarchedAll(es, move) ==
    [i \in DOMAIN es |->
        [es[i] EXCEPT !.fx = @ + move, !.x = IntOf(es[i].fx + move)]]

\* Lines 300-304.
Marched(es, move) ==
    [i \in DOMAIN es |->
        IF es[i].alive
        THEN [es[i] EXCEPT !.fx = @ + move, !.x = IntOf(es[i].fx + move)]
        ELSE es[i]]

\* Line 311: the bullet of shooter s.
EnemyBullet(e) == Bullet(e.x + EnemyW \div 2, e.y + EnemyH + 8)

\* Line 310: the enemies random.choice may pick.
Shooters(es) ==
    {i \in Alive(es) : Cardinality({j \in Alive(es) : j > i}) < MaxShooters}

\* A mutant of UpdateEnemies: the drop does not reverse the direction.
UpdateEnemiesOneWay(d, fires) ==
    LET move == MovePx(enemy_speed, d, enemy_dir)
    IN  /\ IF WillHitEdge(enemies, move)
           THEN /\ enemies' = Dropped(enemies)
                /\ UNCHANGED enemy_dir
           ELSE /\ enemies' = Marched(enemies, move)
                /\ UNCHANGED enemy_dir
        /\ IF fires /\ Alive(enemies) # {}
           THEN \E s \in Shooters(enemies') :
                    enemy_bullets' = Append(enemy_bullets, EnemyBullet(enemies'[s]))
           ELSE UNCHANGED enemy_bullets

\* update_enemies(d): fires is the outcome of line 307.
UpdateEnemies(d, fires) ==
    LET move == MovePx(enemy_speed, d, enemy_dir)
    IN  /\ IF WillHitEdge(enemies, move)
           THEN /\ enemy_dir' = -enemy_dir
                /\ enemies' = Dropped(enemies)
           ELSE /\ enemies' = Marched(enemies, move)
                /\ UNCHANGED enemy_dir
        /\ IF fires /\ Alive(enemies) # {}
           THEN \E s \in Shooters(enemies') :
                    enemy_bullets' = Append(enemy_bullets, EnemyBullet(enemies'[s]))
           ELSE UNCHANGED enemy_bullets

\* The enemies of the waves before level lv.
RECURSIVE EnemiesBefore(_)
EnemiesBefore(lv) ==
    IF lv <= 1 THEN 0 ELSE Rows(lv - 1) * Cols + EnemiesBefore(lv - 1)

(***************************************************************************)
(* The game at the start of the wave of level lv, with jitter pattern p:   *)
(* for level 1 the game after Game.__init__, lines 158-185.                *)
(***************************************************************************)
AtWave(lv, p, cv) ==
    /\ pc = "tick"
    /\ dt = 0
    /\ scan = <<>>
    /\ ticks = 0
    /\ paused = FALSE
    /\ game_over_flag = FALSE
    /\ cv_enabled = cv
    /\ kb_x = 500
    /\ player_x = WIDTH \div 2
    /\ lives = 3
    /\ cooling = FALSE
    /\ player_score = 10 * EnemiesBefore(lv)
    /\ highscore = 0
    /\ level = lv
    /\ bullets = <<>>
    /\ enemy_bullets = <<>>
    /\ enemies = SpawnWave(lv, p)
    /\ enemy_dir = 1
    /\ enemy_speed = SpeedOf(lv)
    /\ fsteps = 0
    /\ fshort = 0

Constructed(p, cv) == AtWave(1, p, cv)

\* The game as the controller's specification holds it: constructed, idle.
GameIdle == Constructed("mixed", TRUE)

(***************************************************************************)
(* SpecFormation: update_enemies stepped on a wave of some level, and the  *)
(* kills collision_checks makes between the steps.                         *)
(***************************************************************************)
FormationLevels == {1, 27}

\* The dt handed to update_enemies, in ms: none, a short frame, MAX_DT, and
\* one far above it.
FormationDts == {0, 17, 50, 400}

\* Kills are explored on the waves of three rows, and drawn from the two
\* outer columns, the lowest living enemy of the column first (a bullet
\* comes from below).
KillCandidates(es) ==
    {i \in Alive(es) :
        /\ Len(es) = 3 * Cols
        /\ (i - 1) % Cols \in {0, Cols - 1}
        /\ \A j \in Alive(es) : (j - 1) % Cols = (i - 1) % Cols => j <= i}

FormationInit ==
    /\ CVInit
    /\ \E p \in JitterPatterns, lv \in FormationLevels : AtWave(lv, p, FALSE)

\* One call of update_enemies; the random draw of line 307 does not fire
\* (the bullets of the enemies do not act on the formation).
FormationStep ==
    /\ fsteps < MaxFormationSteps
    /\ \E d \in FormationDts :
        /\ d < MAX_DT => fshort < MaxShortFrames
        /\ UpdateEnemies(d, FALSE)
        /\ fshort' = IF d < MAX_DT THEN fshort + 1 ELSE fshort
    /\ fsteps' = fsteps + 1
    /\ UNCHANGED <<pc, dt, scan, ticks, paused, game_over_flag, cv_enabled,
                   kb_x, player_x, lives, cooling, player_score, highscore,
                   level, bullets, enemy_speed>>
    /\ UNCHANGED cvVars

\* Lines 317 and 322: a bullet of the player kills enemy i.
FormationKill ==
    /\ fsteps = KillStep
    /\ Cardinality(DOMAIN enemies \ Alive(enemies)) < MaxKills
    /\ \E i \in KillCandidates(enemies) :
        enemies' = [enemies EXCEPT ![i].alive = FALSE]
    /\ player_score' = player_score + 10
    /\ UNCHANGED <<pc, dt, scan, ticks, paused, game_over_flag, cv_enabled,
                   kb_x, player_x, lives, cooling, highscore, level, bullets,
                   enemy_bullets, enemy_dir, enemy_speed, fsteps, fshort>>
    /\ UNCHANGED cvVars

FormationNext ==
    \/ FormationStep
    \/ FormationKill

SpecFormation == FormationInit /\ [][FormationNext]_vars

(***************************************************************************)
(* C6: one update_enemies step changes the horizontal position of each     *)
(* living enemy by at most MAX_MOVE_PER_FRAME pixels, whatever the dt      *)
(* (capped or far above MAX_DT) and the level.                             *)
(***************************************************************************)
C6_MoveBounded ==
    [][\A i \in Alive(enemies) :
        Abs(enemies'[i].fx - enemies[i].fx) <= MAX_MOVE_PER_FRAME * 1000]_vars

\* At level 27 (253 px/s, 12.65 px in MAX_DT) the first step has moved the
\* wave by the clamp's 12 px.
C6_Witness ==
    /\ level = 27
    /\ fsteps = 1
    /\ \E p \in JitterPatterns :
        enemies[1].fx = SpawnWave(27, p)[1].fx + MAX_MOVE_PER_FRAME * 1000

(***************************************************************************)
(* C7: every living enemy is strictly inside the margins in every          *)
(* reachable state: 10 < float_x and float_x + width < WIDTH - 10.         *)
(***************************************************************************)
C7_InsideMargins ==
    \A i \in Alive(enemies) :
        /\ 10 * 1000 < enemies[i].fx
        /\ enemies[i].fx + EnemyW * 1000 < (WIDTH - 10) * 1000

\* The wave has reversed at the right margin with a living enemy less than
\* one capped move from it, after a kill in the outer column.
C7_Witness ==
    /\ enemy_dir = -1
    /\ \E i \in DOMAIN enemies : ~enemies[i].alive
    /\ \E i \in Alive(enemies) :
        enemies[i].fx + EnemyW * 1000 + MAX_DT * enemy_speed
            >= (WIDTH - 10) * 1000

(***************************************************************************)
(* Game.run, lines 359-421, one iteration after the other:                 *)
(*   "tick"     line 361, the frame's dt;                                  *)
(*   "events"   handle_events, one event at a time, then the pause test;   *)
(*   "bullets"  after the controls, lines 400-413;                         *)
(*   "enemies"  update_enemies;                                            *)
(*   "hits"     collision_checks, the player's bullets one at a time;      *)
(*   "hurts"    collision_checks, the enemies' bullets one at a time;      *)
(*   "wave"     lines 418-421;                                             *)
(*   "quit"     after Game.quit.                                           *)
(***************************************************************************)
\* clock.tick(FPS) of line 361, in ms: slow frames, as in the scenes the
\* loop starts from (SpecFormation steps update_enemies with short ones).
RawDts == {400}

\* What get_controls may hand the loop: x_norm (None or Some fraction) and
\* shoot.
ControlSamples ==
    { [x |-> None, shoot |-> FALSE],
      [x |-> Some(<<9, 10>>), shoot |-> TRUE] }

\* A mutant of MoveTo: the target of line 85, not clamped.
MoveToTarget(xn) == IntOf((xn[1] * WIDTH * 1000) \div xn[2])

\* Player.move_to, lines 82-86, for a present x_norm = <<n, d>>.
MoveTo(xn) ==
    LET target == IntOf((xn[1] * WIDTH * 1000) \div xn[2])
    IN  IF target < 20 THEN 20
        ELSE IF target > WIDTH - 20 THEN WIDTH - 20 ELSE target

\* list.remove(b): s without its first element equal to b.
RECURSIVE RemoveFirst(_, _)
RemoveFirst(s, b) ==
    IF s = <<>> THEN <<>>
    ELSE IF Head(s) = b THEN Tail(s)
    ELSE <<Head(s)>> \o RemoveFirst(Tail(s), b)

\* Lines 361-363.  The wall clock moves on: a cooldown may have elapsed.
RunTick ==
    /\ pc = "tick"
    /\ ticks < MaxTicks
    /\ ticks' = ticks + 1
    /\ \E raw \in RawDts : dt' = IF raw < MAX_DT THEN raw ELSE MAX_DT
    /\ \E still \in BOOLEAN : cooling' = (cooling /\ still)
    /\ pc' = "events"
    /\ UNCHANGED <<scan, paused, game_over_flag, cv_enabled, kb_x, player_x,
                   lives, player_score, highscore, level, bullets,
                   enemy_bullets, enemies, enemy_dir, enemy_speed, fsteps,
                   fshort>>
    /\ UNCHANGED cvVars

\* handle_events, lines 237-238: key P.
EvPause ==
    /\ pc = "events"
    /\ paused' = ~paused
    /\ UNCHANGED <<pc, dt, scan, ticks, game_over_flag, cv_enabled, kb_x,
                   player_x, lives, cooling, player_score, highscore, level,
                   bullets, enemy_bullets, enemies, enemy_dir, enemy_speed,
                   fsteps, fshort>>
    /\ UNCHANGED cvVars

\* A mutant of Reset: the flags, the score and the level only.
ResetSoft ==
    /\ player_score' = 0
    /\ level' = 1
    /\ game_over_flag' = FALSE
    /\ paused' = FALSE
    /\ UNCHANGED <<player_x, lives, cooling, bullets, enemy_bullets, enemies,
                   enemy_dir, enemy_speed>>

\* Game.reset, lines 246-254.
Reset ==
    /\ player_x' = WIDTH \div 2
    /\ lives' = 3
    /\ cooling' = FALSE
    /\ player_score' = 0
    /\ level' = 1
    /\ bullets' = <<>>
    /\ enemy_bullets' = <<>>
    /\ \E p \in JitterPatterns : enemies' = SpawnWave(1, p)
    /\ enemy_dir' = 1
    /\ enemy_speed' = SpeedOf(1)
    /\ game_over_flag' = FALSE
    /\ paused' = FALSE

\* handle_events, lines 239-240: key R.
EvReset ==
    /\ pc = "events"
    /\ Reset
    /\ UNCHANGED <<pc, dt, scan, ticks, cv_enabled, kb_x, highscore, fsteps,
                   fshort>>
    /\ UNCHANGED cvVars

\* handle_events, lines 241-244: the space bar, when it fires.
EvSpace ==
    /\ pc = "events"
    /\ ~cv_enabled
    /\ ~cooling
    /\ Len(bullets) < MaxBullets
    /\ cooling' = TRUE
    /\ bullets' = Append(bullets, PlayerBullet(player_x))
    /\ UNCHANGED <<pc, dt, scan, ticks, paused, game_over_flag, cv_enabled,
                   kb_x, player_x, lives, player_score, highscore, level,
                   enemy_bullets, enemies, enemy_dir, enemy_speed, fsteps,
                   fshort>>
    /\ UNCHANGED cvVars

\* handle_events, lines 232-236, and Game.quit: the loop ends.
EvQuit ==
    /\ pc = "events"
    /\ pc' = "quit"
    /\ UNCHANGED <<dt, scan, ticks, paused, game_over_flag, cv_enabled, kb_x,
                   player_x, lives, cooling, player_score, highscore, level,
                   bullets, enemy_bullets, enemies, enemy_dir, enemy_speed,
                   fsteps, fshort>>
    /\ UNCHANGED cvVars

\* Lines 366-371: a paused iteration draws the pause screen and continues.
RunPaused ==
    /\ pc = "events"
    /\ paused
    /\ pc' = "tick"
    /\ UNCHANGED <<dt, scan, ticks, paused, game_over_flag, cv_enabled, kb_x,
                   player_x, lives, cooling, player_score, highscore, level,
                   bullets, enemy_bullets, enemies, enemy_dir, enemy_speed,
                   fsteps, fshort>>
    /\ UNCHANGED cvVars

\* Lines 393-394 with lines 83-84: centerx after x_norm, None or Some.
Moved(cx, xn) == IF xn # None THEN MoveTo(xn[1]) ELSE cx

\* Lines 393-398: the move and the shot of a control sample.
Control(xn, shoot) ==
    /\ player_x' = Moved(player_x, xn)
    /\ (shoot /\ ~cooling) => Len(bullets) < MaxBullets
    /\ IF shoot /\ ~cooling
       THEN /\ cooling' = TRUE
            /\ bullets' = Append(bullets, PlayerBullet(player_x'))
       ELSE UNCHANGED <<cooling, bullets>>

\* Lines 373-398, the gesture controls.
RunControlsCV ==
    /\ pc = "events"
    /\ ~paused
    /\ cv_enabled
    /\ \E c \in ControlSamples : Control(c.x, c.shoot)
    /\ pc' = "bullets"
    /\ UNCHANGED <<dt, scan, ticks, paused, game_over_flag, cv_enabled, kb_x,
                   lives, player_score, highscore, level, enemy_bullets,
                   enemies, enemy_dir, enemy_speed, fsteps, fshort>>
    /\ UNCHANGED cvVars

\* Lines 386-390: self.kb_x after the arrow keys, in 1/1000.
KbX(kb, left, right) ==
    LET a == IF left THEN kb - 15 ELSE kb
        b == IF right THEN a + 15 ELSE a
    IN  IF b < 0 THEN 0 ELSE IF b > 1000 THEN 1000 ELSE b

\* Lines 373-398, the keyboard controls.
RunControlsKB ==
    /\ pc = "events"
    /\ ~paused
    /\ ~cv_enabled
    /\ \E left, right \in BOOLEAN : kb_x' = KbX(kb_x, left, right)
    /\ Control(Some(<<kb_x', 1000>>), FALSE)
    /\ pc' = "bullets"
    /\ UNCHANGED <<dt, scan, ticks, paused, game_over_flag, cv_enabled,
                   lives, player_score, highscore, level, enemy_bullets,
                   enemies, enemy_dir, enemy_speed, fsteps, fshort>>
    /\ UNCHANGED cvVars

\* Bullet.update with velocity v on each bullet of a list.
Updated(bs, v) == [i \in DOMAIN bs |-> [bs[i] EXCEPT !.y = @ + v]]

\* Lines 400-413: the bullets move; those off the screen are removed.
RunBullets ==
    /\ pc = "bullets"
    /\ bullets' = SelectSeq(Updated(bullets, -7),
                            LAMBDA b : ~(b.y + BulletH < 0))
    /\ enemy_bullets' = SelectSeq(Updated(enemy_bullets, 4),
                                  LAMBDA b : ~(b.y > HEIGHT))
    /\ pc' = "enemies"
    /\ UNCHANGED <<dt, scan, ticks, paused, game_over_flag, cv_enabled, kb_x,
                   player_x, lives, cooling, player_score, highscore, level,
                   enemies, enemy_dir, enemy_speed, fsteps, fshort>>
    /\ UNCHANGED cvVars

\* Line 415, then line 314: the loop over a copy of self.bullets starts.
RunEnemies ==
    /\ pc = "enemies"
    /\ \E fires \in BOOLEAN :
        /\ fires => Len(enemy_bullets) < MaxEnemyBullets
        /\ UpdateEnemies(dt, fires)
    /\ scan' = bullets
    /\ pc' = "hits"
    /\ UNCHANGED <<dt, ticks, paused, game_over_flag, cv_enabled, kb_x,
                   player_x, lives, cooling, player_score, highscore, level,
                   bullets, enemy_speed, fsteps, fshort>>
    /\ UNCHANGED cvVars

\* The living enemies the rect of bullet b overlaps.
Targets(b, es) ==
    {i \in Alive(es) : Collide(BulletRect(b), EnemyRect(es[i]))}

\* A mutant of FirstTarget: the bullet goes through every enemy it overlaps.
NoTarget(b, es) == {}

\* Lines 315-316: the enemy the loop over self.enemies finds first, if any.
FirstTarget(b, es) ==
    {i \in Targets(b, es) : \A j \in Targets(b, es) : i <= j}

\* Lines 314-328, one bullet of the copy.
HitBullet ==
    /\ pc = "hits"
    /\ scan # <<>>
    /\ LET b == Head(scan)
           hit == FirstTarget(b, enemies)
       IN  IF hit # {}
           THEN /\ enemies' = [i \in DOMAIN enemies |->
                                  IF i \in hit
                                  THEN [enemies[i] EXCEPT !.alive = FALSE]
                                  ELSE enemies[i]]
                /\ bullets' = RemoveFirst(bullets, b)
                /\ player_score' = player_score + 10
           ELSE UNCHANGED <<enemies, bullets, player_score>>
    /\ scan' = Tail(scan)
    /\ UNCHANGED <<pc, dt, ticks, paused, game_over_flag, cv_enabled, kb_x,
                   player_x, lives, cooling, highscore, level, enemy_bullets,
                   enemy_dir, enemy_speed, fsteps, fshort>>
    /\ UNCHANGED cvVars

\* Line 329: the loop over a copy of self.enemy_bullets starts.
HitsDone ==
    /\ pc = "hits"
    /\ scan = <<>>
    /\ scan' = enemy_bullets
    /\ pc' = "hurts"
    /\ UNCHANGED <<dt, ticks, paused, game_over_flag, cv_enabled, kb_x,
                   player_x, lives, cooling, player_score, highscore, level,
                   bullets, enemy_bullets, enemies, enemy_dir, enemy_speed,
                   fsteps, fshort>>
    /\ UNCHANGED cvVars

\* Lines 329-337 and game_over, lines 339-344: one bullet of the copy.
HurtBullet ==
    /\ pc = "hurts"
    /\ scan # <<>>
    /\ LET b == Head(scan)
       IN  IF Collide(BulletRect(b), PlayerRect(player_x))
           THEN /\ enemy_bullets' = RemoveFirst(enemy_bullets, b)
                /\ lives' = lives - 1
                /\ IF lives' <= 0
                   THEN /\ game_over_flag' = TRUE
                        /\ highscore' = IF player_score > highscore
                                        THEN player_score ELSE highscore
                        /\ paused' = TRUE
                   ELSE UNCHANGED <<game_over_flag, highscore, paused>>
           ELSE UNCHANGED <<enemy_bullets, lives, game_over_flag, highscore,
                            paused>>
    /\ scan' = Tail(scan)
    /\ UNCHANGED <<pc, dt, ticks, cv_enabled, kb_x, player_x, cooling,
                   player_score, level, bullets, enemies, enemy_dir,
                   enemy_speed, fsteps, fshort>>
    /\ UNCHANGED cvVars

\* The end of collision_checks.
HurtsDone ==
    /\ pc = "hurts"
    /\ scan = <<>>
    /\ pc' = "wave"
    /\ UNCHANGED <<dt, scan, ticks, paused, game_over_flag, cv_enabled, kb_x,
                   player_x, lives, cooling, player_score, highscore, level,
                   bullets, enemy_bullets, enemies, enemy_dir, enemy_speed,
                   fsteps, fshort>>
    /\ UNCHANGED cvVars

\* A mutant of WaveCleared: one dead enemy is enough.
WaveBroken(es) == \E i \in DOMAIN es : ~es[i].alive

\* Line 418.
WaveCleared(es) == \A i \in DOMAIN es : ~es[i].alive

\* A mutant of RunWave: a cleared wave starts the game over at level 1.
RunWaveFromStart ==
    /\ pc = "wave"
    /\ IF WaveCleared(enemies)
       THEN /\ level' = 1
            /\ player_score' = 0
            /\ \E p \in JitterPatterns : enemies' = SpawnWave(1, p)
            /\ enemy_dir' = 1
            /\ enemy_speed' = SpeedOf(1)
       ELSE UNCHANGED <<level, player_score, enemies, enemy_dir, enemy_speed>>
    /\ pc' = "tick"
    /\ UNCHANGED <<dt, scan, ticks, paused, game_over_flag, cv_enabled, kb_x,
                   player_x, lives, cooling, highscore, bullets,
                   enemy_bullets, fsteps, fshort>>
    /\ UNCHANGED cvVars

\* Lines 418-421, then the drawing; the next iteration follows.
RunWave ==
    /\ pc = "wave"
    /\ IF WaveCleared(enemies)
       THEN /\ level' = level + 1
            /\ \E p \in JitterPatterns : enemies' = SpawnWave(level + 1, p)
            /\ enemy_dir' = 1
            /\ enemy_speed' = SpeedOf(level + 1)
       ELSE UNCHANGED <<level, enemies, enemy_dir, enemy_speed>>
    /\ pc' = "tick"
    /\ UNCHANGED <<dt, scan, ticks, paused, game_over_flag, cv_enabled, kb_x,
                   player_x, lives, cooling, player_score, highscore,
                   bullets, enemy_bullets, fsteps, fshort>>
    /\ UNCHANGED cvVars

Next ==
    \/ RunTick
    \/ EvPause
    \/ EvReset
    \/ EvSpace
    \/ EvQuit
    \/ RunPaused
    \/ RunControlsCV
    \/ RunControlsKB
    \/ RunBullets
    \/ RunEnemies
    \/ HitBullet
    \/ HitsDone
    \/ HurtBullet
    \/ HurtsDone
    \/ RunWave

(***************************************************************************)
(* Where the loop starts.  A bullet needs some sixty iterations to reach   *)
(* an enemy and a hundred to reach the player, so besides the game just    *)
(* constructed the loop is started from games in the middle of level 1:    *)
(* SceneFrames iterations of MAX_DT have passed, the wave has marched to   *)
(* the right and not yet met the margin, and the bullets in flight are     *)
(* about to arrive.                                                        *)
(***************************************************************************)
SceneFrames == 120

\* The wave of level 1 after f iterations of MAX_DT, the enemies of dead
\* killed.
WaveAfter(p, f, dead) ==
    [i \in 1 .. Rows(1) * Cols |->
        LET e == SpawnWave(1, p)[i]
            fx == e.fx + f * MovePx(SpeedOf(1), MAX_DT, 1)
        IN  [e EXCEPT !.fx = fx, !.x = IntOf(fx), !.alive = i \notin dead]]

\* The bullet enemy i fired in iteration f (line 311), as it is after
\* iteration SceneFrames.
ShotAt(p, i, f) ==
    LET b == EnemyBullet(WaveAfter(p, f, {})[i])
    IN  [b EXCEPT !.y = @ + 4 * (SceneFrames - f)]

Last == Rows(1) * Cols

\* The player's bullets in flight: none; one below the last enemy; two
\* beside it, in the column it is marching into.
SceneBullets(p, n) ==
    LET e == WaveAfter(p, SceneFrames, {})[Last]
    IN  CASE n = 0 -> <<>>
          [] n = 1 -> << [x |-> e.x + EnemyW \div 2 - BulletW \div 2,
                          y |-> e.y + EnemyH + 3] >>
          [] OTHER -> << [x |-> e.x + EnemyW, y |-> e.y + EnemyH - 11],
                         [x |-> e.x + EnemyW, y |-> e.y + EnemyH - 4] >>

\* The enemies' bullets in flight: none, or one or two just above the ship.
SceneEnemyBullets(p, n) ==
    CASE n = 0 -> <<>>
      [] n = 1 -> << ShotAt(p, 19, 20) >>
      [] OTHER -> << ShotAt(p, 13, 7), ShotAt(p, 19, 20) >>

\* The scenes: the enemies killed so far (none, or all but the last), the
\* bullets of either side in flight, and the player's lives.
Scenes ==
    { [dead |-> 1 .. Last - 1, nb |-> 1, ne |-> 2, lives |-> 1],
      [dead |-> 1 .. Last - 1, nb |-> 1, ne |-> 0, lives |-> 3],
      [dead |-> {}, nb |-> 2, ne |-> 0, lives |-> 3],
      [dead |-> {}, nb |-> 0, ne |-> 1, lives |-> 1],
      [dead |-> {}, nb |-> 0, ne |-> 1, lives |-> 3] }

Scene(p, cv, dead, bs, ebs, lv) ==
    /\ pc = "tick"
    /\ dt = 0
    /\ scan = <<>>
    /\ ticks = 0
    /\ paused = FALSE
    /\ game_over_flag = FALSE
    /\ cv_enabled = cv
    /\ kb_x = 500
    /\ player_x = WIDTH \div 2
    /\ lives = lv
    /\ cooling = FALSE
    /\ player_score = 10 * Cardinality(dead)
    /\ highscore = 0
    /\ level = 1
    /\ bullets = bs
    /\ enemy_bullets = ebs
    /\ enemies = WaveAfter(p, SceneFrames, dead)
    /\ enemy_dir = 1
    /\ enemy_speed = SpeedOf(1)
    /\ fsteps = 0
    /\ fshort = 0

Init ==
    /\ CVInit
    /\ \E cv \in BOOLEAN :
        \/ \E p \in JitterPatterns : Constructed(p, cv)
        \/ \E sc \in Scenes :
                Scene("mixed", cv, sc.dead, SceneBullets("mixed", sc.nb),
                      SceneEnemyBullets("mixed", sc.ne), sc.lives)

Spec == Init /\ [][Next]_vars

(***************************************************************************)
(* SpecControls: the controls of lines 373-398 applied again and again to  *)
(* the game just constructed, with gesture samples over all of [0, 1] and  *)
(* any sequence of arrow keys.                                             *)
(***************************************************************************)
\* x_norm of a gesture sample: absent, the ends of [0, 1], the values whose
\* targets are the two limits of centerx and their neighbours, the middle.
GestureXs ==
    { None, Some(<<0, 1>>), Some(<<19, 900>>), Some(<<1, 45>>),
      Some(<<21, 900>>), Some(<<1, 2>>), Some(<<879, 900>>),
      Some(<<44, 45>>), Some(<<881, 900>>), Some(<<1, 1>>) }

ControlsInit ==
    /\ CVInit
    /\ \E cv \in BOOLEAN : Constructed("mixed", cv)

\* Lines 379-383 and 393-398 with a sample of the controller.
ControlsGesture ==
    /\ cv_enabled
    /\ \E x \in GestureXs, shoot \in BOOLEAN : Control(x, shoot)
    /\ UNCHANGED <<pc, dt, scan, ticks, paused, game_over_flag, cv_enabled,
                   kb_x, lives, player_score, highscore, level, enemy_bullets,
                   enemies, enemy_dir, enemy_speed, fsteps, fshort>>
    /\ UNCHANGED cvVars

\* Lines 385-398 with the arrow keys.
ControlsKeys ==
    /\ ~cv_enabled
    /\ \E left, right \in BOOLEAN : kb_x' = KbX(kb_x, left, right)
    /\ Control(Some(<<kb_x', 1000>>), FALSE)
    /\ UNCHANGED <<pc, dt, scan, ticks, paused, game_over_flag, cv_enabled,
                   lives, player_score, highscore, level, enemy_bullets,
                   enemies, enemy_dir, enemy_speed, fsteps, fshort>>
    /\ UNCHANGED cvVars

ControlsNext ==
    \/ ControlsGesture
    \/ ControlsKeys

SpecControls == ControlsInit /\ [][ControlsNext]_vars

(***************************************************************************)
(* C11: after every move the player's centerx lies in [20, WIDTH - 20],    *)
(* for every gesture x_norm in [0, 1] and every keyboard position; an      *)
(* absent x_norm leaves the position where it is.                          *)
(***************************************************************************)
C11_PlayerInBounds ==
    /\ 20 <= player_x /\ player_x <= WIDTH - 20
    /\ \A x \in GestureXs \ {None} :
          20 <= Moved(player_x, x) /\ Moved(player_x, x) <= WIDTH - 20
    /\ Moved(player_x, None) = player_x

\* The keyboard position has been nudged to the right end and the ship
\* stands at the right limit.
C11_Witness ==
    /\ ~cv_enabled
    /\ kb_x = 1000
    /\ player_x = WIDTH - 20

(***************************************************************************)
(* C12: the step that publishes x for a frame with a hand updates          *)
(* self._prev_x by this law and publishes the result: absent, it becomes   *)
(* the clamped raw x; less than DEADZONE away from raw x, it stays; else   *)
(* it becomes prev * (1 - ALPHA) + raw * ALPHA.  smooth_pos(None, v) = v,  *)
(* smooth_pos(0.2, 0.8, 0.5) = 0.5, and in_deadzone(c, v, dz) is           *)
(* |v - c| < dz, false on the boundary.                                    *)
(***************************************************************************)
C12_SmoothingLaw ==
    [][\A t \in Threads :
          (thr[t].pc = "w_x" /\ thr'[t].pc = "w_shoot" /\ thr[t].x # None) =>
              LET raw == thr[t].x[1]
                  diff == FSub(raw, prev_x[1])
                  near == diff[1] * 100 < 3 * diff[2] /\ diff[1] * 100 > -3 * diff[2]
              IN  /\ FLess(<<-1, 1>>, raw) /\ FLess(raw, <<1001, 1000>>)
                  /\ prev_x' = IF prev_x = None THEN Some(raw)
                               ELSE IF near THEN prev_x
                               ELSE Some(Frac(prev_x[1][1] * raw[2] * 13
                                                + raw[1] * prev_x[1][2] * 7,
                                              prev_x[1][2] * raw[2] * 20))
                  /\ mx_norm'.v = prev_x'
                  /\ smooth_pos(None, <<7, 10>>, SMOOTHING_ALPHA) = <<7, 10>>
                  /\ smooth_pos(Some(<<1, 5>>), <<4, 5>>, <<1, 2>>) = <<1, 2>>
                  /\ in_deadzone(<<1, 2>>, <<13, 25>>, <<1, 20>>)
                  /\ ~in_deadzone(<<1, 2>>, <<3, 5>>, <<1, 20>>)
                  /\ ~in_deadzone(<<1, 2>>, <<53, 100>>, DEADZONE)]_vars

\* The first frame's 0.2 passed through; the second frame's 1.0, outside
\* the deadzone, gave 0.2 * 0.65 + 1.0 * 0.35 = 0.48, which was published.
C12_Witness ==
    /\ prev_x = Some(<<12, 25>>)
    /\ mx_norm.v = prev_x
    /\ mx_norm.it = 2

(***************************************************************************)
(* C13: an iteration that processed a frame without a hand publishes       *)
(* x_norm None, shoot False and confidence 0.0, and leaves self._prev_x    *)
(* as it was, so that the next hand is smoothed against the value from     *)
(* before the gap.                                                         *)
(***************************************************************************)
C13_NoHandSample ==
    [][\A t \in Threads :
          (thr[t].pc \in {"w_x", "w_shoot", "w_conf", "w_preview"}
                /\ thr[t].x = None) =>
              /\ thr[t].pc = "w_x" => prev_x' = prev_x
              /\ thr'[t].pc = "unlock" =>
                    /\ mx_norm'.v = None
                    /\ mshoot'.v = FALSE
                    /\ mconf'.v = FZero
                    /\ mx_norm'.it = thr[t].frame
                    /\ mshoot'.it = thr[t].frame
                    /\ mconf'.it = thr[t].frame
                    /\ mpreview' = thr[t].frame
                    /\ prev_x' = prev_x]_vars

\* The first frame showed a hand at 0.2, the second none: its sample is
\* published and 0.2 is still the smoothing state.
C13_Witness ==
    /\ mx_norm = Written(None, 2)
    /\ mshoot = Written(FALSE, 2)
    /\ mconf = Written(FZero, 2)
    /\ mpreview = 2
    /\ prev_x = Some(<<1, 5>>)

(***************************************************************************)
(* C14: get_controls returns the sample in the slot, which is the one of   *)
(* the last completed publish, or the default of __init__ when none was    *)
(* completed; the read leaves the slot as it is, so a second read with no  *)
(* publish in between returns the same sample; a publish overwrites the    *)
(* slot whether it was read or not.                                        *)
(***************************************************************************)
C14_ReadLatestKeepsSlot ==
    [][/\ mpc \in {"g_x", "g_shoot", "g_conf", "g_preview", "g_return"} =>
            UNCHANGED <<mx_norm, mshoot, mconf, mpreview>>
       /\ (mpc = "g_return" /\ mpc' = "idle") =>
            /\ ret' = <<mx_norm, mshoot, mconf, mpreview>>
            /\ ret'[4] = 0 => ret' = DefaultSample
       /\ lock \notin Threads =>
            /\ mx_norm.it = mpreview
            /\ mshoot.it = mpreview
            /\ mconf.it = mpreview
       /\ \A t \in Threads :
            (thr[t].pc = "w_preview" /\ thr'[t].pc = "unlock") =>
                /\ mpreview' = thr[t].frame
                /\ mx_norm'.it = thr[t].frame]_vars

\* A second read is about to return the sample of frame 1 which the first
\* read returned.
C14_Witness ==
    /\ mpc = "g_return"
    /\ got = ret
    /\ ret[4] = 1

(***************************************************************************)
(* C15: an acquisition iteration in which the camera returns no frame      *)
(* counts as "no detection": after it the slot the game loop reads holds   *)
(* x_norm None, shoot False, confidence 0.0, so that a shoot sample        *)
(* published before the failure is no longer acted on.                     *)
(***************************************************************************)
C15_NoFrameNoDetection ==
    [][\A t \in Threads :
          (thr[t].pc = "read" /\ thr'[t].pc = "loop") =>
              /\ mx_norm'.v = None
              /\ mshoot'.v = FALSE
              /\ mconf'.v = FZero]_vars

(***************************************************************************)
(* C16: when stop() returns, the acquisition loop of the thread it joined  *)
(* has ended and the camera and the detector are released, wherever the    *)
(* loop was when stop() was called; and the loop never reads a released    *)
(* camera nor runs a closed detector.                                      *)
(***************************************************************************)
C16_StopEndsLoop ==
    [][/\ (mpc = "close" /\ mpc' = "idle") =>
            /\ thread # 0 => thr[thread].pc = "done"
            /\ cap' # "open"
            /\ hands' # "open"
       /\ \A t \in Threads :
            /\ (thr[t].pc = "read" /\ thr'[t].pc # "read") => cap # "released"
            /\ (thr[t].pc = "process" /\ thr'[t].pc # "process") =>
                    hands # "closed"]_vars

(***************************************************************************)
(* C17, as the code has it: the step that takes level 1 to level 2 finds   *)
(* all 21 enemies of the 3 x 7 wave dead and spawns the wave of level 2,   *)
(* which by rows = 3 + (level - 1) // 2 has again 3 rows of 7: 21 living   *)
(* enemies.                                                                *)
(***************************************************************************)
C17_LevelTwoWave ==
    [][(level = 1 /\ level' = 2) =>
          /\ Len(enemies) = 21
          /\ Alive(enemies) = {}
          /\ Len(enemies') = 21
          /\ Alive(enemies') = DOMAIN enemies'
          /\ {enemies'[i].y : i \in DOMAIN enemies'} = {50, 105, 160}
          /\ \A y \in {50, 105, 160} :
                Cardinality({i \in DOMAIN enemies' : enemies'[i].y = y}) = 7]_vars

\* C17 as stated: the wave of level 2 has 4 rows of 7, 28 living enemies.
C17_LevelTwoFourRows ==
    [][(level = 1 /\ level' = 2) =>
          /\ Len(enemies) = 21
          /\ Alive(enemies) = {}
          /\ Len(enemies') = 28
          /\ Alive(enemies') = DOMAIN enemies']_vars

\* The first iteration has killed the last of the 21 and begun level 2.
C17_Witness ==
    /\ pc = "tick"
    /\ ticks = 1
    /\ level = 2
    /\ Cardinality(Alive(enemies)) = 21
    /\ enemy_speed = 53

(***************************************************************************)
(* C18: a step of update_enemies with move m is one of two things.  If     *)
(* some living enemy at x + m would reach a margin (its right edge the     *)
(* right one, its left edge the left one), no x changes, every living      *)
(* enemy goes down by 12 and the direction is negated.  Otherwise every    *)
(* living enemy's x changes by m, no y changes and the direction stays.    *)
(* Dead enemies are not moved, and the horizontal offsets between living   *)
(* enemies are the same after the step.                                    *)
(***************************************************************************)
C18_DropOrMarch ==
    [][fsteps' = fsteps + 1 =>
          LET living == Alive(enemies)
              first == CHOOSE i \in living : TRUE
              delta == enemies'[first].fx - enemies[first].fx
          IN  /\ living # {}
              /\ DOMAIN enemies' = DOMAIN enemies
              /\ \A i \in DOMAIN enemies \ living : enemies'[i] = enemies[i]
              /\ \A i \in living :
                    enemies'[i].fx - enemies[i].fx = delta
              /\ \E d \in FormationDts :
                    LET m == MovePx(enemy_speed, d, enemy_dir)
                        reach == \E i \in living :
                                    \/ enemies[i].fx + m + EnemyW * 1000
                                            >= (WIDTH - 10) * 1000
                                    \/ enemies[i].fx + m <= 10 * 1000
                    IN  IF reach
                        THEN /\ enemy_dir' = -enemy_dir
                             /\ delta = 0
                             /\ \A i \in living :
                                   /\ enemies'[i].x = enemies[i].x
                                   /\ enemies'[i].fy = enemies[i].fy + 12
                                   /\ enemies'[i].y = enemies[i].fy + 12
                        ELSE /\ enemy_dir' = enemy_dir
                             /\ delta = m
                             /\ \A i \in living :
                                   /\ enemies'[i].fy = enemies[i].fy
                                   /\ enemies'[i].y = enemies[i].y]_vars

\* The wave of level 1 has dropped at the right margin after enemy 15 was
\* killed: the living are 12 lower, the dead one is where it was.
C18_Witness ==
    /\ level = 1
    /\ enemy_dir = -1
    /\ ~enemies[15].alive
    /\ enemies[15].fy = 160
    /\ enemies[1].alive
    /\ enemies[1].fy = 62

(***************************************************************************)
(* C19: while the game is paused, no step of a loop iteration (the frame's *)
(* dt, the events, the pause screen) changes the player's position, the    *)
(* bullets of either side, the enemies, the score, the lives or the level; *)
(* in particular a fire command received while paused spawns no bullet.    *)
(* (Keys P and R end the pause and are not meant.)                         *)
(***************************************************************************)
C19_PausedChangesNothing ==
    [][(paused /\ paused' /\ pc \in {"tick", "events"}) =>
          UNCHANGED <<player_x, bullets, enemy_bullets, enemies, enemy_dir,
                      player_score, lives, level>>]_vars

(***************************************************************************)
(* C20: a drop lasts one step.  After a step of update_enemies that        *)
(* dropped the wave, no living enemy would reach a margin by the move of   *)
(* the next step, whatever its dt and whoever is killed in between: the    *)
(* next step marches.                                                      *)
(***************************************************************************)
C20_DropThenMarch ==
    [][(/\ fsteps' = fsteps + 1
        /\ \E i \in Alive(enemies) : enemies'[i].fy # enemies[i].fy) =>
          \A d \in FormationDts :
            LET m == MovePx(enemy_speed', d, enemy_dir')
            IN  \A i \in Alive(enemies') :
                    /\ enemies'[i].fx + m + EnemyW * 1000 < (WIDTH - 10) * 1000
                    /\ enemies'[i].fx + m > 10 * 1000]_vars

\* The wave of level 1 dropped once at the right margin and has marched
\* back to the left since: enemy 7 is lower by 12 and away from the margin
\* by more than the move that made it drop.
C20_Witness ==
    /\ level = 1
    /\ enemy_dir = -1
    /\ enemies[7].alive
    /\ enemies[7].fy = 62
    /\ enemies[7].fx + EnemyW * 1000
            < (WIDTH - 10) * 1000 - 2 * MAX_DT * enemy_speed

(***************************************************************************)
(* C21: every sample the mailbox holds, and every sample a read returns,  *)
(* is well formed: x_norm is None or lies in [0, 1], whatever hands and    *)
(* gaps came before; confidence is 0.0 or 1.0; shoot is True only with an  *)
(* x_norm and confidence 1.0.  The clamp of line 112 brings every x of     *)
(* the detector, also one left or right of the frame, into [0, 1].         *)
(***************************************************************************)
C21_SampleWellFormed ==
    LET InUnit(x) == ~FLess(x, FZero) /\ ~FLess(FOne, x)
        WellFormed(x, shoot, conf) ==
            /\ x = None \/ InUnit(x[1])
            /\ conf \in {FZero, FOne}
            /\ shoot => (x # None /\ conf = FOne)
    IN  /\ lock \notin Threads => WellFormed(mx_norm.v, mshoot.v, mconf.v)
        /\ WellFormed(ret[1].v, ret[2].v, ret[3].v)
        /\ prev_x = None \/ InUnit(prev_x[1])
        /\ \A lx \in {<<-1, 5>>, FZero, <<1, 2>>, FOne, <<6, 5>>} :
                InUnit(ClampX(lx))

\* A read has returned a shoot sample whose x_norm is the smoothed 0.48
\* (0.2, then a pinching hand right of the frame, clamped to 1.0).
C21_Witness ==
    /\ ret[1].v = Some(<<12, 25>>)
    /\ ret[2].v = TRUE
    /\ ret[3].v = FOne
    /\ ret[4] = 2

(***************************************************************************)
(* C22: at most one acquisition thread of the controller is in its loop    *)
(* at any time, however start() and stop() are called.                     *)
(***************************************************************************)
C22_OneLoopAtATime ==
    Cardinality({t \in Threads : thr[t].pc \notin {"unborn", "done"}}) <= 1

(***************************************************************************)
(* C2: once the game is over, only reset brings the loop back to the       *)
(* simulation: while game_over_flag is set, an iteration of the loop does  *)
(* not go on from handle_events to the controls and the update, whatever   *)
(* keys P were pressed.                                                    *)
(***************************************************************************)
C2_GameOverUntilReset ==
    [][(game_over_flag /\ pc = "events") => pc' # "bullets"]_vars

(***************************************************************************)
(* C3: from the hit that ends the game until a reset, nothing is applied   *)
(* to the enemies or the bullets: no move or drop, no advance or spawn,    *)
(* no kill, no new wave.                                                   *)
(***************************************************************************)
C3_FrozenAfterGameOver ==
    [][(game_over_flag /\ game_over_flag') =>
          UNCHANGED <<enemies, enemy_dir, bullets, enemy_bullets, level>>]_vars

(***************************************************************************)
(* C4: the level rises by exactly 1, and only in the step that finds every *)
(* enemy dead, which spawns the next wave in full; that step always        *)
(* raises it; and a wave with no living enemy exists only inside the       *)
(* iteration that cleared it, so the next iterations find living enemies   *)
(* and do not raise the level again.                                       *)
(***************************************************************************)
C4_LevelOncePerWave ==
    [][/\ level' > level =>
            /\ level' = level + 1
            /\ pc = "wave"
            /\ Alive(enemies) = {}
            /\ Len(enemies') = Rows(level') * Cols
            /\ Alive(enemies') = DOMAIN enemies'
       /\ (pc = "wave" /\ Alive(enemies) = {}) => level' = level + 1
       /\ Alive(enemies') = {} => pc' \in {"hits", "hurts", "wave"}]_vars

\* The second iteration after a cleared wave reaches line 418 at level 2.
C4_Witness ==
    /\ pc = "wave"
    /\ ticks = 2
    /\ level = 2
    /\ player_score = 10 * EnemiesBefore(2)
    /\ Alive(enemies) = DOMAIN enemies

(***************************************************************************)
(* C5: in collision_checks a bullet of the player that overlaps a living   *)
(* enemy kills exactly one enemy it overlaps, is removed and scores 10; a  *)
(* bullet that overlaps no living enemy stays and changes nothing; the     *)
(* score gained is 10 times the enemies killed.  (Living is meant when the *)
(* bullet is examined.)                                                    *)
(***************************************************************************)
C5_OneKillPerBullet ==
    [][(pc = "hits" /\ scan # <<>>) =>
          LET b == Head(scan)
              over == {i \in Alive(enemies) :
                          Collide(BulletRect(b), EnemyRect(enemies[i]))}
          IN  /\ over # {} =>
                    /\ \E i \in over :
                          enemies' = [enemies EXCEPT ![i].alive = FALSE]
                    /\ Len(bullets') = Len(bullets) - 1
                    /\ \A k \in DOMAIN bullets' : bullets'[k] # b
                    /\ player_score' = player_score + 10
              /\ over = {} => UNCHANGED <<enemies, bullets, player_score>>
              /\ player_score' - player_score =
                    10 * (Cardinality(Alive(enemies))
                          - Cardinality(Alive(enemies')))]_vars

\* After the loop over two bullets that both overlapped the last enemy: the
\* first has killed it and is gone, the second is still in flight over it.
C5_Witness ==
    /\ pc = "hits"
    /\ scan = <<>>
    /\ Len(bullets) = 1
    /\ Alive(enemies) = DOMAIN enemies \ {Last}
    /\ player_score = 10
    /\ Collide(BulletRect(bullets[1]), EnemyRect(enemies[Last]))

(***************************************************************************)
(* C8: reset, whatever the state of the session, yields the initial game:  *)
(* level 1, score 0, a player with 3 lives, no bullets of either side, 21  *)
(* living enemies marching to the right at speed 45, neither paused nor    *)
(* over.                                                                   *)
(***************************************************************************)
C8_ResetInitialGame ==
    [][EvReset =>
          /\ level' = 1
          /\ player_score' = 0
          /\ lives' = 3
          /\ player_x' = WIDTH \div 2
          /\ bullets' = <<>>
          /\ enemy_bullets' = <<>>
          /\ Len(enemies') = 21
          /\ Alive(enemies') = DOMAIN enemies'
          /\ \E p \in JitterPatterns : enemies' = SpawnWave(1, p)
          /\ enemy_dir' = 1
          /\ enemy_speed' = 45
          /\ ~paused'
          /\ ~game_over_flag']_vars

\* A game over has been recorded (the high score is only written by
\* game_over) and the game is the initial one again, playing.
C8_Witness ==
    /\ highscore > 0
    /\ player_score = 0
    /\ level = 1
    /\ lives = 3
    /\ bullets = <<>>
    /\ enemy_bullets = <<>>
    /\ Alive(enemies) = DOMAIN enemies
    /\ ~paused
    /\ ~game_over_flag

(***************************************************************************)
(* C9: in every step that is not a reset, neither the score nor the level  *)
(* decreases.                                                              *)
(***************************************************************************)
C9_ScoreLevelMonotone ==
    [][~EvReset => (player_score' >= player_score /\ level' >= level)]_vars

\* Both have risen: the last enemy of level 1 was killed and level 2 begun.
C9_Witness ==
    /\ level = 2
    /\ player_score = 10 * EnemiesBefore(2)
    /\ pc = "tick"

(***************************************************************************)
(* C10: the player's lives are never negative.                             *)
(***************************************************************************)
C10_LivesNonNegative == lives >= 0

CVNext ==
    \/ StartOpen
    \/ StartSpawn
    \/ StopSignal
    \/ StopJoined
    \/ StopJoinTimeout
    \/ StopRelease
    \/ StopClose
    \/ \E t \in Threads : RunLoop(t)
    \/ \E t \in Threads : RunReadFrame(t)
    \/ \E t \in Threads : RunReadNothing(t)
    \/ \E t \in Threads : RunProcess(t)
    \/ \E t \in Threads : RunAcquire(t)
    \/ \E t \in Threads : RunWriteX(t)
    \/ \E t \in Threads : RunWriteShoot(t)
    \/ \E t \in Threads : RunWriteConf(t)
    \/ \E t \in Threads : RunWritePreview(t)
    \/ \E t \in Threads : RunRelease(t)
    \/ GetAcquire
    \/ GetX
    \/ GetShoot
    \/ GetConf
    \/ GetPreview
    \/ GetReturn


\* The controller beside a game that is constructed and idle.
CVGameInit == CVInit /\ GameIdle

SpecCV == CVGameInit /\ [][CVNext]_vars

(***************************************************************************)
(* C1: get_controls never returns a torn sample: the four values of the   *)
(* tuple it returns were written by one and the same acquisition iteration *)
(* (the one whose frame the preview is), or are all the defaults of        *)
(* __init__.                                                               *)
(***************************************************************************)
C1_NoTornRead ==
    /\ ret[1].it = ret[4]
    /\ ret[2].it = ret[4]
    /\ ret[3].it = ret[4]
    /\ ret[4] = 0 => ret = DefaultSample

\* A read in progress while an acquisition thread waits to publish a new
\* frame over a sample already published.
C1_Witness ==
    /\ mpc = "g_shoot"
    /\ mpreview > 0
    /\ \E t \in Threads : thr[t].pc = "lock" /\ thr[t].frame > mpreview

====
